---- MODULE Spec2Model ----
(***************************************************************************)
(* A model of aws-automatic-snapshots.py: one invocation of main() for one *)
(* period.  The provider (EC2) and the hook module are the environment:    *)
(* every call into them either returns or raises.                          *)
(***************************************************************************)
EXTENDS Integers, Sequences, FiniteSets, TLC

\* ---------------------------------------------------------------- bounds
\* Largest retention count a policy holds for the active period.
MaxRetention == 2
\* Largest number of snapshots that exist before the run starts.
MaxPre == 3

\* ---------------------------------------------------------- configuration
\* parser.add_argument('period', choices=...)
Periods == {"hour", "day", "week", "month"}
\* The periods the run is started with.
ActivePeriods == {"hour"}

\* config['policies'], in the order iteritems() yields them.
PolicyOrder == <<"CRITICAL", "MEH">>
Policies == {PolicyOrder[i] : i \in 1..Len(PolicyOrder)}

\* The volumes of the account, in the order the provider lists them.
VolumeOrder == <<"vol-a", "vol-b">>
Volumes == {VolumeOrder[i] : i \in 1..Len(VolumeOrder)}

\* Python's None where a snapshot is expected; snapshot ids start at 1.
None == 0
NoTag == "untagged"
\* The volume field of an event that concerns no volume.
NoVolume == "-"

\* One entry of config['policies']: settings.get(period), the optional keys
\* only_attached_vols and hook_module (TRUE: a path is configured).
SettingsSet ==
    [keep : 0..MaxRetention, only_attached_vols : BOOLEAN, hook_module : BOOLEAN]

\* The tables the run is started with: the two policies of lines 18-33 with
\* every retention count for the period.  CRITICAL is restricted to attached
\* volumes and has a hook module; MEH takes any volume and has no hook.
PolicyTables ==
    {t \in [Policies -> SettingsSet] :
        /\ t["CRITICAL"].only_attached_vols
        /\ t["CRITICAL"].hook_module
        /\ ~t["MEH"].only_attached_vols
        /\ ~t["MEH"].hook_module}

\* A snapshot held by the provider.
SnapIds == 1..(MaxPre + Len(VolumeOrder))
Snapshot(i, v, t, s) == [id |-> i, volume_id |-> v, tag_period |-> t, start_time |-> s]

VARIABLES
    period,             \* parser.parse_args().period
    settings,           \* config['policies'][policy]
    volTag,             \* the value of config['tag'] on each volume
    attached,           \* whether the volume is attached to this instance
    snaps,              \* the snapshots the provider holds
    pre,                \* the snapshots that existed when the run started
    pc,                 \* position of main()
    volumes_to_process, \* policy -> sequence of volumes
    pi,                 \* index of the policy loop
    vi,                 \* index of the volume loop
    hook_module,        \* TRUE once imp.load_source returned
    snap,               \* the snapshot created for the current volume, or None
    must_delete,        \* what is left of must_delete for the current volume
    log,                \* the calls made so far, oldest first
    extra_key,          \* a policy of the table carries a key that is no period
    conn,               \* TRUE once boto.ec2.connect_to_region returned
    instance_metadata,  \* TRUE when the metadata read holds 'instance-id'
    listing,            \* the listing handed to the slicing step on its own
    runs                \* the overlapping invocations on one volume

vars == <<period, settings, volTag, attached, snaps, pre, pc, volumes_to_process,
          pi, vi, hook_module, snap, must_delete, log, extra_key, conn,
          instance_metadata, listing, runs>>

config == <<period, settings, volTag, attached, pre, extra_key>>

\* What line 194 and line 202 leave behind.
startup == <<conn, instance_metadata>>

\* The state of the specifications that take one step of main() on its own.
apart == <<listing, runs>>


\* ------------------------------------------------------------- helpers
Max2(a, b) == IF a > b THEN a ELSE b
Min2(a, b) == IF a < b THEN a ELSE b

\* Every order in which the provider may return the members of S.
RECURSIVE Orderings(_)
Orderings(S) ==
    IF S = {} THEN {<<>>}
    ELSE UNION {{<<x>> \o rest : rest \in Orderings(S \ {x})} : x \in S}

\* Mutant: a negative stop leaves at least the first element in the slice.
SliceTo_AtLeastOne(s, e) ==
    LET stop == IF e < 0 THEN Min2(Max2(Len(s) + e, 1), Len(s)) ELSE Min2(e, Len(s))
    IN  SubSeq(s, 1, stop)

\* Python's s[:e] for any integer e.
SliceTo(s, e) ==
    LET stop == IF e < 0 THEN Max2(Len(s) + e, 0) ELSE Min2(e, Len(s))
    IN  SubSeq(s, 1, stop)

\* cmp(dateutil.parser.parse(x.start_time), dateutil.parser.parse(y.start_time))
CmpStartTime(x, y) ==
    IF x.start_time < y.start_time THEN -1
    ELSE IF x.start_time > y.start_time THEN 1 ELSE 0

\* Mutant: x goes in front of what compares equal to it.
InsertSorted_Unstable(s, x) ==
    LET n == IF \E i \in 1..Len(s) : CmpStartTime(s[i], x) >= 0
            THEN (CHOOSE i \in 1..Len(s) :
                     /\ CmpStartTime(s[i], x) >= 0
                     /\ \A j \in 1..(i - 1) : CmpStartTime(s[j], x) < 0) - 1
            ELSE Len(s)
    IN  SubSeq(s, 1, n) \o <<x>> \o SubSeq(s, n + 1, Len(s))

\* sorted(raw_snapshots, cmp=...): a stable sort, x goes behind what is not
\* greater than it.
InsertSorted(s, x) ==
    LET n == IF \E i \in 1..Len(s) : CmpStartTime(s[i], x) > 0
            THEN (CHOOSE i \in 1..Len(s) :
                     /\ CmpStartTime(s[i], x) > 0
                     /\ \A j \in 1..(i - 1) : CmpStartTime(s[j], x) <= 0) - 1
            ELSE Len(s)
    IN  SubSeq(s, 1, n) \o <<x>> \o SubSeq(s, n + 1, Len(s))

RECURSIVE sorted_snapshots(_)
sorted_snapshots(raw) ==
    IF raw = <<>> THEN <<>>
    ELSE InsertSorted(sorted_snapshots(SubSeq(raw, 1, Len(raw) - 1)), raw[Len(raw)])

\* Mutant: the listing is sliced as the provider returned it.
MustDelete_Unsorted(raw, keep) ==
    IF keep # 0 THEN SliceTo(raw, -keep) ELSE raw

\* Mutant: the slice is applied to a retention of 0 as well; s[:-0] is empty.
MustDelete_SliceOnly(raw, keep) == SliceTo(sorted_snapshots(raw), -keep)

\* Mutant: the first N of the sorted listing are kept instead of the last N.
MustDelete_KeepFirst(raw, keep) ==
    IF keep # 0
    THEN SubSeq(sorted_snapshots(raw), Min2(keep, Len(raw)) + 1, Len(raw))
    ELSE raw

\* Lines 294-304: which of the listed snapshots are deleted.
MustDelete(raw, keep) ==
    IF keep # 0 THEN SliceTo(sorted_snapshots(raw), -keep) ELSE raw

\* Mutant: the attachment filter is never added.
get_all_volumes_AnyAttachment(policy) ==
    SelectSeq(VolumeOrder, LAMBDA v : volTag[v] = policy)

\* conn.get_all_volumes(filters=volume_filters), lines 207-210.
get_all_volumes(policy) ==
    SelectSeq(VolumeOrder,
              LAMBDA v : /\ volTag[v] = policy
                         /\ settings[policy].only_attached_vols => attached[v])

\* Mutant: every policy of the table is snapshotted, whatever its retention.
IsSnapshotPolicy_Any(p) == p \in Policies

\* Mutant: only a positive count asks for a snapshot.
IsSnapshotPolicy_Positive(p) == settings[p].keep > 0

\* Line 217.
IsSnapshotPolicy(p) == settings[p].keep # 0
policies_to_snapshot == SelectSeq(PolicyOrder, IsSnapshotPolicy)

\* The policy and volume the loops stand at.
CreatePolicy == policies_to_snapshot[pi]
PrunePolicy == PolicyOrder[pi]
CurVol(policy) == volumes_to_process[policy][vi]

Event(c, v, o, a) == [call |-> c, vol |-> v, ok |-> o, arg |-> a]

\* The snapshots this run has created so far.
Fresh == {s \in snaps : s.id > MaxPre}
NextId == MaxPre + 1 + Cardinality({i \in 1..Len(log) : log[i].call = "create" /\ log[i].ok})

\* The overlapping invocations of the specification of two runs, and what an
\* invocation that has not started holds.
Runs == {"run-1", "run-2"}
Idle == [pc |-> "idle", snap |-> None, must_delete |-> <<>>]

\* ---------------------------------------------------------------- Init
\* The volumes the run finds: each tagged with one of the policies, vol-a
\* attached to the instance the run is on, vol-b attached or not when it is
\* tagged CRITICAL and not attached when it is tagged MEH, which ignores it.
Fleets ==
    {w \in [tag : [Volumes -> Policies], att : [Volumes -> BOOLEAN]] :
        /\ w.att["vol-a"]
        /\ w.tag["vol-b"] = "MEH" => ~w.att["vol-b"]}

\* The period tags carried by the snapshots that exist before the run.
PreTags(p) == {p}

Init ==
    /\ period \in ActivePeriods
    /\ settings \in PolicyTables
    /\ \E w \in Fleets : volTag = w.tag /\ attached = w.att
    /\ \E m \in 0..MaxPre :
         \E vol \in [1..m -> Volumes], tag \in [1..m -> PreTags(period)] :
            pre = {Snapshot(i, vol[i], tag[i], i) : i \in 1..m}
    /\ snaps = pre
    /\ pc = "start"
    /\ volumes_to_process = [p \in Policies |-> <<>>]
    /\ pi = 1
    /\ vi = 1
    /\ hook_module = FALSE
    /\ snap = None
    /\ must_delete = <<>>
    /\ log = <<>>
    /\ extra_key = FALSE
    /\ conn = FALSE
    /\ instance_metadata = FALSE
    /\ listing = <<>>
    /\ runs = [r \in Runs |-> Idle]

\* main() before its first statement, with nothing called yet.
AtStart ==
    /\ snaps = pre
    /\ pc = "start"
    /\ volumes_to_process = [p \in Policies |-> <<>>]
    /\ pi = 1
    /\ vi = 1
    /\ hook_module = FALSE
    /\ snap = None
    /\ must_delete = <<>>
    /\ log = <<>>
    /\ conn = FALSE
    /\ instance_metadata = FALSE
    /\ listing = <<>>
    /\ runs = [r \in Runs |-> Idle]

\* Tables in which either policy may or may not ask for attached volumes, with
\* a retention of 0 or 1; CRITICAL has the hook module, MEH has none.
SelectionTables ==
    {t \in [Policies -> SettingsSet] :
        /\ t["CRITICAL"].hook_module
        /\ ~t["MEH"].hook_module
        /\ \A p \in Policies : t[p].keep <= 1}

\* Any volume tagged with either policy, attached to this instance or not, and
\* at most one snapshot from before the run.
InitSelection ==
    /\ period \in ActivePeriods
    /\ settings \in SelectionTables
    /\ volTag \in [Volumes -> Policies]
    /\ attached \in [Volumes -> BOOLEAN]
    /\ \E m \in 0..1 :
         \E vol \in [1..m -> Volumes] :
            pre = {Snapshot(i, vol[i], period, i) : i \in 1..m}
    /\ extra_key = FALSE
    /\ AtStart

\* What the command line may give as the period: two of the choices, a word
\* that is none, and a choice in another spelling.
Arguments == {"hour", "day", "year", "Hour"}

\* Any argument, the tables and fleets of Init, and at most one snapshot of
\* the hour from before the run.
InitArguments ==
    /\ period \in Arguments
    /\ settings \in PolicyTables
    /\ \E w \in Fleets : volTag = w.tag /\ attached = w.att
    /\ \E m \in 0..1 :
         \E vol \in [1..m -> Volumes] :
            pre = {Snapshot(i, vol[i], "hour", i) : i \in 1..m}
    /\ extra_key = FALSE
    /\ AtStart

\* Tables that hold what the comment of lines 124-128 does not describe: a
\* negative count for the period under CRITICAL, or a key that is no period.
MalformedTables ==
    {t \in [Policies -> [keep : (-MaxRetention)..MaxRetention,
                         only_attached_vols : BOOLEAN, hook_module : BOOLEAN]] :
        /\ t["CRITICAL"].only_attached_vols
        /\ t["CRITICAL"].hook_module
        /\ ~t["MEH"].only_attached_vols
        /\ ~t["MEH"].hook_module
        /\ t["MEH"].keep \in {0, 1}}

InitMalformed ==
    /\ period \in ActivePeriods
    /\ settings \in MalformedTables
    /\ extra_key \in BOOLEAN
    /\ extra_key \/ settings["CRITICAL"].keep < 0
    /\ volTag \in [Volumes -> Policies]
    /\ attached = [v \in Volumes |-> TRUE]
    /\ \E m \in 0..MaxPre :
         \E vol \in [1..m -> Volumes] :
            pre = {Snapshot(i, vol[i], period, i) : i \in 1..m}
    /\ AtStart

\* Tables with a count of 0 or 1 for CRITICAL and of 0 for MEH.
FrameTables == {t \in PolicyTables : t["CRITICAL"].keep <= 1 /\ t["MEH"].keep = 0}

\* What a snapshot from before the run may carry as its period tag: the
\* period of the run, another period, or no tag at all.
FrameTags(p) == {p, "day", NoTag}

\* The fleets of Init with snapshots of any tag, those of vol-a older than
\* those of vol-b.
InitFrame ==
    /\ period \in ActivePeriods
    /\ settings \in FrameTables
    /\ \E w \in Fleets : volTag = w.tag /\ attached = w.att
    /\ \E m \in 0..MaxPre, k \in 0..MaxPre :
         /\ k <= m
         /\ \E tag \in [1..m -> FrameTags(period)] :
              pre = {Snapshot(i, IF i <= k THEN "vol-a" ELSE "vol-b", tag[i], i) :
                        i \in 1..m}
    /\ extra_key = FALSE
    /\ AtStart

\* Lines 294-304 on their own: a listing of one volume in any order the
\* provider may return it, with creation times that may coincide, and the
\* count of the policy.  Nothing else of main() has run.
InitSort ==
    /\ period \in ActivePeriods
    /\ \E n \in 0..MaxRetention :
         settings = [p \in Policies |->
                        [keep |-> n, only_attached_vols |-> FALSE, hook_module |-> FALSE]]
    /\ volTag = [v \in Volumes |-> PolicyOrder[1]]
    /\ attached = [v \in Volumes |-> TRUE]
    /\ \E m \in 0..MaxPre :
         \E time \in [1..m -> 1..2], ord \in Orderings(1..m) :
            listing = [i \in 1..m |-> Snapshot(ord[i], VolumeOrder[1], period, time[ord[i]])]
    /\ pre = {listing[i] : i \in 1..Len(listing)}
    /\ snaps = pre
    /\ pc = "slice"
    /\ volumes_to_process = [p \in Policies |-> IF p = PolicyOrder[1] THEN <<VolumeOrder[1]>> ELSE <<>>]
    /\ pi = 1
    /\ vi = 1
    /\ hook_module = FALSE
    /\ snap = None
    /\ must_delete = <<>>
    /\ log = <<>>
    /\ extra_key = FALSE
    /\ conn = TRUE
    /\ instance_metadata = TRUE
    /\ runs = [r \in Runs |-> Idle]

\* Two invocations of main() for the same period at once, each at the first
\* volume of the first policy, whose count is positive; the snapshots from
\* before carry the period's tag and distinct creation times.
InitOverlap ==
    /\ period \in ActivePeriods
    /\ \E n \in 1..MaxRetention :
         settings = [p \in Policies |->
                        [keep |-> n, only_attached_vols |-> FALSE, hook_module |-> FALSE]]
    /\ volTag = [v \in Volumes |-> PolicyOrder[1]]
    /\ attached = [v \in Volumes |-> TRUE]
    /\ \E m \in 0..MaxPre :
         pre = {Snapshot(i, VolumeOrder[1], period, i) : i \in 1..m}
    /\ snaps = pre
    /\ pc = "overlap"
    /\ volumes_to_process = [p \in Policies |-> IF p = PolicyOrder[1] THEN <<VolumeOrder[1]>> ELSE <<>>]
    /\ pi = 1
    /\ vi = 1
    /\ hook_module = FALSE
    /\ snap = None
    /\ must_delete = <<>>
    /\ log = <<>>
    /\ extra_key = FALSE
    /\ conn = TRUE
    /\ instance_metadata = TRUE
    /\ listing = <<>>
    /\ runs = [r \in Runs |-> Idle]

\* ------------------------------------------------------- control flow
\* Mutant: the snapshot is requested at once, the hook is never loaded.
NextAfterBegin_NoHook(policy) == "create"

\* Line 233: with a hook path the module is loaded first.
NextAfterBegin(policy) == IF settings[policy].hook_module THEN "load" ELSE "create"

\* Line 235: an exception of imp.load_source leaves the try block.
NextAfterLoad(ok) == IF ok THEN "before" ELSE "finally"

\* Mutant: the before hook is guarded on its own and the creation goes on.
NextAfterBefore_GoOn(ok) == "create"

\* Line 238: an exception of the before hook leaves the try block.
NextAfterBefore(ok) == IF ok THEN "create" ELSE "finally"

\* Mutant: no handler around the volume, the exception reaches line 321.
NextAfterCreate_Abort(ok) == IF ok THEN "tag" ELSE "aborted"

\* Mutant: a failed creation breaks out of the creation loops.
NextAfterCreate_Break(ok) == IF ok THEN "tag" ELSE "sleep"

\* Line 241: an exception of create_snapshot leaves the try block.
NextAfterCreate(ok) == IF ok THEN "tag" ELSE "finally"

\* Mutant: snap is not reset and still names the previous volume's snapshot.
InitialSnap_Kept == snap

\* Line 226: snap = None at the start of each volume.
InitialSnap == None

\* Mutant: the after hook runs only when a snapshot was created.
RunsAfterHook_OnSuccess(policy) ==
    settings[policy].hook_module /\ hook_module /\ snap # None

\* Line 257: the after hook runs when a path is set and the module is loaded.
RunsAfterHook(policy) == settings[policy].hook_module /\ hook_module

\* Mutant: each snap.delete() is guarded on its own and the loop goes on.
RestAfterDelete_GoOn(ok) == Tail(must_delete)

\* Lines 307-312: what is left to delete after one snap.delete(); an exception
\* leaves the loop.
RestAfterDelete(ok) == IF ok THEN Tail(must_delete) ELSE <<>>

\* Mutant: no handler around the volume's pruning, the exception reaches
\* line 321.
NextAfterListError_Abort == "aborted"

\* Lines 312-317: an exception of get_all_snapshots is logged and the loop of
\* line 279 goes on.
NextAfterListError == "prune_loop"

\* Mutant: the run waits only when a volume entered the creation steps.
WaitsForSnapshots_IfAttempted == \E i \in 1..Len(log) : log[i].call = "begin"

\* Line 265: if policies_to_snapshot.
WaitsForSnapshots == policies_to_snapshot # <<>>

\* ------------------------------------------------------------- actions
\* Mutant: the period is taken as given, without choices=.
ValidPeriod_Any(p) == TRUE

\* Lines 181-182: parse_args() exits unless the period is one of the choices.
ValidPeriod(p) == p \in Periods

\* Line 208: some policy asks for instance_metadata['instance-id'].
NeedsInstanceId == \E p \in Policies : settings[p].only_attached_vols

\* Mutant: a missing instance id is passed over and the selection goes on.
StartupFails_Ignored(connected, metadata) == ~connected

\* Lines 194-210 under the handler of line 321: an exception of the connection
\* or of the volume selection, the lookup of line 209 included, ends the run.
StartupFails(connected, metadata) == ~connected \/ (~metadata /\ NeedsInstanceId)

\* Lines 176-210: parse the arguments, connect, read the instance metadata,
\* select the volumes.  parse_args() exits on a period that is no choice; any
\* exception after it reaches the outer handler of line 321.
Start ==
    /\ pc = "start"
    /\ IF ~ValidPeriod(period)
       THEN /\ pc' = "rejected"
            /\ UNCHANGED <<startup, volumes_to_process>>
       ELSE \E connected \in BOOLEAN, metadata \in BOOLEAN :
              /\ conn' = connected
              /\ instance_metadata' = (connected /\ metadata)
              /\ IF StartupFails(connected, connected /\ metadata)
                 THEN /\ pc' = "aborted"
                      /\ UNCHANGED volumes_to_process
                 ELSE /\ volumes_to_process' = [p \in Policies |-> get_all_volumes(p)]
                      /\ pc' = "create_loop"
    /\ UNCHANGED <<config, apart, snaps, pi, vi, hook_module, snap, must_delete, log>>

\* Lines 218-233: the heads of the two creation loops.
CreateLoop ==
    /\ pc = "create_loop"
    /\ IF pi > Len(policies_to_snapshot)
       THEN /\ pc' = "sleep"
            /\ UNCHANGED <<pi, vi, hook_module, snap, log>>
       ELSE IF vi > Len(volumes_to_process[CreatePolicy])
       THEN /\ pi' = pi + 1
            /\ vi' = 1
            /\ UNCHANGED <<pc, hook_module, snap, log>>
       ELSE /\ hook_module' = FALSE
            /\ snap' = InitialSnap
            /\ log' = Append(log, Event("begin", CurVol(CreatePolicy), TRUE, None))
            /\ pc' = NextAfterBegin(CreatePolicy)
            /\ UNCHANGED <<pi, vi>>
    /\ UNCHANGED <<config, startup, apart, snaps, volumes_to_process, must_delete>>

\* Line 235: imp.load_source.
LoadHook ==
    /\ pc = "load"
    /\ \E ok \in BOOLEAN :
         /\ log' = Append(log, Event("load", CurVol(CreatePolicy), ok, None))
         /\ hook_module' = ok
         /\ pc' = NextAfterLoad(ok)
    /\ UNCHANGED <<config, startup, apart, snaps, volumes_to_process, pi, vi, snap, must_delete>>

\* Line 238: hook_module.aws_automatic_snapshots_before.
HookBefore ==
    /\ pc = "before"
    /\ \E ok \in BOOLEAN :
         /\ log' = Append(log, Event("before", CurVol(CreatePolicy), ok, None))
         /\ pc' = NextAfterBefore(ok)
    /\ UNCHANGED <<config, startup, apart, snaps, volumes_to_process, pi, vi, hook_module, snap,
                   must_delete>>

\* Line 241: vol.create_snapshot.  The new snapshot carries no tag yet.
CreateSnapshot ==
    /\ pc = "create"
    /\ \E ok \in BOOLEAN :
         /\ log' = Append(log, Event("create", CurVol(CreatePolicy), ok,
                                     IF ok THEN NextId ELSE None))
         /\ pc' = NextAfterCreate(ok)
         /\ IF ok
            THEN /\ snaps' = snaps \cup
                        {Snapshot(NextId, CurVol(CreatePolicy), NoTag, NextId)}
                 /\ snap' = NextId
            ELSE UNCHANGED <<snaps, snap>>
    /\ UNCHANGED <<config, startup, apart, volumes_to_process, pi, vi, hook_module, must_delete>>

\* Lines 242-250: conn.create_tags.
CreateTags ==
    /\ pc = "tag"
    /\ \E ok \in BOOLEAN :
         /\ log' = Append(log, Event("tag", CurVol(CreatePolicy), ok, snap))
         /\ snaps' = IF ok
                     THEN {IF s.id = snap THEN [s EXCEPT !.tag_period = period] ELSE s :
                              s \in snaps}
                     ELSE snaps
         /\ pc' = "finally"
    /\ UNCHANGED <<config, startup, apart, volumes_to_process, pi, vi, hook_module, snap, must_delete>>

\* Lines 255-263: the finally block, then the next volume.  Whether the after
\* hook returns or raises, line 261 catches it and the loop goes on the same
\* way, so the event records the call and not its outcome.
Finally ==
    /\ pc = "finally"
    /\ log' = IF RunsAfterHook(CreatePolicy)
              THEN Append(log, Event("after", CurVol(CreatePolicy), TRUE, snap))
              ELSE log
    /\ vi' = vi + 1
    /\ pc' = "create_loop"
    /\ UNCHANGED <<config, startup, apart, snaps, volumes_to_process, pi, hook_module, snap, must_delete>>

\* Lines 265-269: time.sleep(5).
Sleep ==
    /\ pc = "sleep"
    /\ log' = IF WaitsForSnapshots
              THEN Append(log, Event("sleep", NoVolume, TRUE, None))
              ELSE log
    /\ pi' = 1
    /\ vi' = 1
    /\ pc' = "prune_loop"
    /\ UNCHANGED <<config, startup, apart, snaps, volumes_to_process, hook_module, snap, must_delete>>

\* Lines 278-279: the heads of the two pruning loops.
PruneLoop ==
    /\ pc = "prune_loop"
    /\ IF pi > Len(PolicyOrder)
       THEN /\ pc' = "done"
            /\ UNCHANGED <<pi, vi>>
       ELSE IF vi > Len(volumes_to_process[PrunePolicy])
       THEN /\ pi' = pi + 1
            /\ vi' = 1
            /\ UNCHANGED pc
       ELSE /\ pc' = "list"
            /\ UNCHANGED <<pi, vi>>
    /\ UNCHANGED <<config, startup, apart, snaps, volumes_to_process, hook_module, snap, must_delete, log>>

\* Mutant: the listing is filtered by volume only.
Matching_AnyTag(v) == {s \in snaps : s.volume_id = v}

\* What conn.get_all_snapshots matches for a volume (lines 282-288).
Matching(v) == {s \in snaps : s.volume_id = v /\ s.tag_period = period}

\* Lines 282-304 and 310-317: list, sort, slice; an exception ends the volume.
\* A listing may not show yet the snapshots this run has created.
ListSnapshots ==
    /\ pc = "list"
    /\ LET v == CurVol(PrunePolicy)
           keep == settings[PrunePolicy].keep
       IN  \/ /\ log' = Append(log, Event("list", v, FALSE, None))
              /\ vi' = vi + 1
              /\ pc' = NextAfterListError
              /\ UNCHANGED must_delete
           \/ \E stale \in BOOLEAN :
                /\ stale => Matching(v) \cap Fresh # {}
                /\ LET seen == IF stale THEN Matching(v) \ Fresh ELSE Matching(v)
                   IN  \E raw_snapshots \in Orderings(seen) :
                         LET del == MustDelete(raw_snapshots, keep)
                         IN  /\ log' = Append(log,
                                    Event("list", v, TRUE,
                                          [seen |-> {s.id : s \in seen},
                                           marked |-> [i \in 1..Len(del) |-> del[i].id]]))
                             /\ must_delete' = del
                             /\ IF del # <<>>
                                THEN /\ pc' = "delete"
                                     /\ UNCHANGED vi
                                ELSE /\ pc' = "prune_loop"
                                     /\ vi' = vi + 1
    /\ UNCHANGED <<config, startup, apart, snaps, volumes_to_process, pi, hook_module, snap>>

\* Lines 307-308 and 312-317: one snap.delete().
DeleteSnapshot ==
    /\ pc = "delete"
    /\ LET v == CurVol(PrunePolicy)
           s == Head(must_delete)
       IN  \E ok \in BOOLEAN :
             /\ log' = Append(log, Event("delete", v, ok, s.id))
             /\ snaps' = IF ok THEN {x \in snaps : x.id # s.id} ELSE snaps
             /\ must_delete' = RestAfterDelete(ok)
             /\ IF RestAfterDelete(ok) = <<>>
                THEN /\ pc' = "prune_loop"
                     /\ vi' = vi + 1
                ELSE UNCHANGED <<pc, vi>>
    /\ UNCHANGED <<config, startup, apart, volumes_to_process, pi, hook_module, snap>>

Next ==
    \/ Start
    \/ CreateLoop
    \/ LoadHook
    \/ HookBefore
    \/ CreateSnapshot
    \/ CreateTags
    \/ Finally
    \/ Sleep
    \/ PruneLoop
    \/ ListSnapshots
    \/ DeleteSnapshot

Spec == Init /\ [][Next]_vars

\* The run over every choice of only_attached_vols and of attachment.
SpecSelection == InitSelection /\ [][Next]_vars

\* The run over valid and invalid period arguments.
SpecArguments == InitArguments /\ [][Next]_vars

\* The run over tables with a negative count or a key that is no period.
SpecMalformed == InitMalformed /\ [][Next]_vars

\* The run among snapshots of other periods and of no period.
SpecFrame == InitFrame /\ [][Next]_vars

\* Lines 294-304 applied to the listing handed in.
Slice ==
    /\ pc = "slice"
    /\ must_delete' = MustDelete(listing, settings[PrunePolicy].keep)
    /\ pc' = "sliced"
    /\ UNCHANGED <<config, startup, apart, snaps, volumes_to_process, pi, vi,
                   hook_module, snap, log>>

NextSort == Slice

\* The slicing step over every listing.
SpecSort == InitSort /\ [][NextSort]_vars

\* What the overlapping invocations leave alone: all of the single run.
single == <<config, startup, listing, pc, volumes_to_process, pi, vi, hook_module,
            snap, must_delete, log>>

\* The id and creation time of the next snapshot of the overlapping runs.
NextOverlapId == MaxPre + 1 + Cardinality({r \in Runs : runs[r].snap # None})

\* Line 241 in invocation r; lines 252-254 on an exception.
RunCreate(r) ==
    /\ pc = "overlap"
    /\ runs[r].pc = "idle"
    /\ \E ok \in BOOLEAN :
         IF ok
         THEN /\ snaps' = snaps \cup
                     {Snapshot(NextOverlapId, CurVol(PrunePolicy), NoTag, NextOverlapId)}
              /\ runs' = [runs EXCEPT ![r].snap = NextOverlapId, ![r].pc = "tag"]
         ELSE /\ runs' = [runs EXCEPT ![r].pc = "list"]
              /\ UNCHANGED snaps
    /\ UNCHANGED single

\* Lines 242-250 in invocation r, then the wait of line 269.
RunTag(r) ==
    /\ pc = "overlap"
    /\ runs[r].pc = "tag"
    /\ \E ok \in BOOLEAN :
         snaps' = IF ok
                  THEN {IF s.id = runs[r].snap THEN [s EXCEPT !.tag_period = period] ELSE s :
                           s \in snaps}
                  ELSE snaps
    /\ runs' = [runs EXCEPT ![r].pc = "list"]
    /\ UNCHANGED single

\* Lines 282-304 in invocation r: the listing may show any part of what
\* matches, in any order.
RunList(r) ==
    /\ pc = "overlap"
    /\ runs[r].pc = "list"
    /\ \/ runs' = [runs EXCEPT ![r].pc = "done"]
       \/ \E seen \in SUBSET Matching(CurVol(PrunePolicy)) :
            \E raw_snapshots \in Orderings(seen) :
               LET del == MustDelete(raw_snapshots, settings[PrunePolicy].keep)
               IN  runs' = [runs EXCEPT ![r].must_delete = del,
                                        ![r].pc = IF del # <<>> THEN "delete" ELSE "done"]
    /\ UNCHANGED <<single, snaps>>

\* Lines 307-317 in invocation r: one snap.delete(); it raises for a snapshot
\* the other invocation has deleted already, and an exception ends the batch.
RunDelete(r) ==
    /\ pc = "overlap"
    /\ runs[r].pc = "delete"
    /\ LET s == Head(runs[r].must_delete)
       IN  \E ok \in BOOLEAN :
             /\ ok => s \in snaps
             /\ snaps' = IF ok THEN {x \in snaps : x.id # s.id} ELSE snaps
             /\ LET rest == IF ok THEN Tail(runs[r].must_delete) ELSE <<>>
                IN  runs' = [runs EXCEPT ![r].must_delete = rest,
                                         ![r].pc = IF rest # <<>> THEN "delete" ELSE "done"]
    /\ UNCHANGED single

NextOverlap ==
    \/ \E r \in Runs : RunCreate(r)
    \/ \E r \in Runs : RunTag(r)
    \/ \E r \in Runs : RunList(r)
    \/ \E r \in Runs : RunDelete(r)

\* Two invocations for the same period, interleaved step by step.
SpecOverlap == InitOverlap /\ [][NextOverlap]_vars

\* ------------------------------------------------------- reading the log
Calls(v, c) == {i \in 1..Len(log) : log[i].vol = v /\ log[i].call = c}
Called(v, c) == Calls(v, c) # {}
Failed(v, c) == \E i \in Calls(v, c) : ~log[i].ok
Succeeded(v, c) == \E i \in Calls(v, c) : log[i].ok

\* The volumes the run has selected, and those of one policy.
VolumesOf(p) == {volumes_to_process[p][i] : i \in 1..Len(volumes_to_process[p])}
Selected == UNION {VolumesOf(p) : p \in Policies}
Keep(v) == settings[volTag[v]].keep
HasHook(v) == settings[volTag[v]].hook_module

CreationPcs == {"create_loop", "load", "before", "create", "tag", "finally"}
PruningPcs == {"prune_loop", "list", "delete"}
Terminal == pc \in {"done", "aborted"}

TypeOK ==
    /\ pc \in {"start", "rejected", "aborted", "sleep", "done"} \cup CreationPcs \cup PruningPcs
    /\ \A s \in snaps : s.id \in SnapIds
    /\ Selected \subseteq Volumes


\* --------------------------------------------------------------- claims
\* The snapshots of v that carried the period's tag before the run.
PreMatching(v) == {s \in pre : s.volume_id = v /\ s.tag_period = period}

\* The ids of the snapshots this run created for v.
CreatedFor(v) == {log[i].arg : i \in {j \in Calls(v, "create") : log[j].ok}}

\* A listing of v succeeded and showed what the run created for v.
ListedAll(v) ==
    \E i \in Calls(v, "list") : log[i].ok /\ CreatedFor(v) \subseteq log[i].arg.seen

\* Creation, tagging, listing and every deletion succeeded for v.
CycleSucceeded(v) ==
    /\ Succeeded(v, "create")
    /\ Succeeded(v, "tag")
    /\ ListedAll(v)
    /\ ~Failed(v, "delete")

\* C1: with retention N > 0 and M pre-existing snapshots of the period, a run
\* whose creation, tagging, listing and deletions succeed leaves exactly
\* min(M+1, N) snapshots of the period on the volume, each newer than every
\* one that was removed.
C1_RetentionBound ==
    pc = "done" =>
        \A v \in Selected :
            (Keep(v) > 0 /\ CycleSucceeded(v)) =>
                LET all == PreMatching(v) \cup
                           {Snapshot(c, v, period, c) : c \in CreatedFor(v)}
                    left == Matching(v)
                IN  /\ Cardinality(left) = Min2(Cardinality(PreMatching(v)) + 1, Keep(v))
                    /\ left \subseteq all
                    /\ \A k \in left, d \in all \ left : k.start_time > d.start_time

\* The scenario of three snapshots and a retention of 2: the two newest stay.
C1_Witness ==
    /\ pc = "done"
    /\ \E v \in Selected :
         /\ Keep(v) = 2
         /\ CycleSucceeded(v)
         /\ Cardinality(PreMatching(v)) = 3
         /\ Cardinality(Matching(v)) = 2
         /\ CreatedFor(v) \subseteq {s.id : s \in Matching(v)}

\* C2: with retention 0, a run whose listing and deletions succeed leaves no
\* snapshot of the period on any selected volume of the policy.
C2_ZeroRetentionPurge ==
    pc = "done" =>
        \A v \in Selected :
            (Keep(v) = 0 /\ Succeeded(v, "list") /\ ~Failed(v, "delete")) =>
                Matching(v) = {}

\* Two stale snapshots of a retention-0 policy were listed and both removed.
C2_Witness ==
    /\ pc = "done"
    /\ \E v \in Selected :
         /\ Keep(v) = 0
         /\ Cardinality(PreMatching(v)) >= 2
         /\ Succeeded(v, "list")
         /\ ~Failed(v, "delete")
         /\ Matching(v) = {}


CreationCalls == {"begin", "load", "before", "create", "tag", "after"}
HookSteps == {"load", "before", "create", "tag"}

\* The hook module of v failed to load, or its before hook raised.
HookBlocked(v) == Failed(v, "load") \/ Failed(v, "before")

\* The creation loop stands inside the processing of v.
InProgress(v) ==
    /\ pc \in {"load", "before", "create", "tag", "finally"}
    /\ CurVol(CreatePolicy) = v

\* C3: no call of the creation phase is ever made for a volume that is not
\* selected or whose policy has retention 0 for the period, and when the
\* creation phase is over every selected volume of a policy with a nonzero
\* retention has been taken once (its snapshot requested unless the volume's
\* own hook raised first).
C3_CreationOnlyForSnapshotPolicies ==
    /\ \A v \in Volumes :
          (v \notin Selected \/ Keep(v) = 0) =>
              \A i \in 1..Len(log) : log[i].vol = v => log[i].call \notin CreationCalls
    /\ pc = "sleep" =>
          \A v \in Selected :
              Keep(v) # 0 =>
                  /\ Cardinality(Calls(v, "begin")) = 1
                  /\ Called(v, "create") <=> ~HookBlocked(v)

\* A run with a hooked retention-0 policy left alone next to a policy whose
\* volume was snapshotted.
C3_Witness ==
    /\ pc = "sleep"
    /\ \E v, w \in Selected :
         /\ Keep(v) = 0
         /\ HasHook(v)
         /\ \A c \in CreationCalls : ~Called(v, c)
         /\ Keep(w) # 0
         /\ Succeeded(w, "create")

\* C4: in the log of a finished run the calls of a volume come in the order
\* before hook, create_snapshot, create_tags, after hook: under a hook no
\* creation precedes the before hook, tagging follows a successful creation,
\* and nothing of the volume's hook, creation or tagging steps comes after its
\* after hook.
C4_HookCreateTagOrder ==
    Terminal =>
        \A v \in Volumes :
            /\ HasHook(v) =>
                  \A c \in Calls(v, "create") : \E b \in Calls(v, "before") : b < c
            /\ \A t \in Calls(v, "tag") :
                  \E c \in Calls(v, "create") : c < t /\ log[c].ok
            /\ \A a \in Calls(v, "after") :
                  /\ \A i \in 1..Len(log) :
                        (log[i].vol = v /\ log[i].call \in HookSteps) => i < a
                  /\ Succeeded(v, "create") => Called(v, "tag")

\* All four calls were made for one volume, in that order.
C4_Witness ==
    pc = "done" /\ \E v \in Volumes :
        \E b \in Calls(v, "before"), c \in Calls(v, "create"),
           t \in Calls(v, "tag"), a \in Calls(v, "after") :
            b < c /\ c < t /\ t < a

\* C5: in the log of a finished run, a volume whose before hook was invoked
\* has its after hook invoked exactly once, whatever failed in between.
C5_HookSymmetry ==
    Terminal =>
        \A v \in Volumes :
            /\ Cardinality(Calls(v, "before")) <= 1
            /\ Cardinality(Calls(v, "after")) <= 1
            /\ Called(v, "before") => Cardinality(Calls(v, "after")) = 1

\* One volume's before hook raised, another's creation failed, and each got
\* its after hook once.
C5_Witness ==
    /\ pc = "done"
    /\ \E v, w \in Volumes :
         /\ Failed(v, "before")
         /\ Cardinality(Calls(v, "after")) = 1
         /\ Succeeded(w, "before")
         /\ Failed(w, "create")
         /\ Cardinality(Calls(w, "after")) = 1


\* The after hook of v was invoked once, with argument a.
AfterOnceWith(v, a) ==
    /\ Cardinality(Calls(v, "after")) = 1
    /\ \A i \in Calls(v, "after") : log[i].arg = a

\* C6 as stated: whenever the before hook of a volume raises, create_snapshot
\* is still called for that volume.
C6_CreationDespiteBeforeFailure ==
    Terminal => \A v \in Volumes : Failed(v, "before") => Called(v, "create")

\* C6 as amended: a before hook that raises ends the try block of its volume:
\* in the log of a finished run neither create_snapshot nor create_tags was
\* called for it, and its after hook was still invoked once, with None.
C6_BeforeFailureSkipsCreation ==
    Terminal =>
        \A v \in Volumes :
            Failed(v, "before") =>
                /\ ~Called(v, "create")
                /\ ~Called(v, "tag")
                /\ CreatedFor(v) = {}
                /\ AfterOnceWith(v, None)

\* A before hook raised, its volume got no snapshot, and the next volume was
\* snapshotted.
C6_Witness ==
    /\ pc = "done"
    /\ \E v, w \in Volumes :
         /\ Failed(v, "before")
         /\ ~Called(v, "create")
         /\ AfterOnceWith(v, None)
         /\ \E b \in Calls(v, "before"), c \in Calls(w, "create") : b < c /\ log[c].ok

\* C7 as stated: every volume processed under a policy with a hook gets its
\* after hook once control leaves the load/before/create/tag steps, with None
\* when the creation failed.
C7_AfterHookAlways ==
    Terminal =>
        \A v \in Volumes :
            (HasHook(v) /\ Called(v, "begin")) =>
                /\ Cardinality(Calls(v, "after")) = 1
                /\ ~Succeeded(v, "create") => AfterOnceWith(v, None)

\* C7 as amended: once the hook module is loaded the after hook is invoked
\* exactly once when control leaves the before/create/tag steps, with None
\* when no snapshot was created and with the snapshot otherwise; when the
\* module fails to load neither hook is invoked and nothing is created.
C7_AfterHookOnceLoaded ==
    Terminal =>
        \A v \in Volumes :
            (HasHook(v) /\ Called(v, "begin")) =>
                IF Succeeded(v, "load")
                THEN IF Succeeded(v, "create")
                     THEN \E c \in CreatedFor(v) : AfterOnceWith(v, c)
                     ELSE AfterOnceWith(v, None)
                ELSE /\ ~Called(v, "before")
                     /\ ~Called(v, "after")
                     /\ ~Called(v, "create")

\* One volume's creation failed and its after hook got None; another's was
\* created, its tagging failed, and its after hook got the snapshot.
C7_Witness ==
    /\ pc = "done"
    /\ \E v, w \in Volumes :
         /\ Failed(v, "create")
         /\ AfterOnceWith(v, None)
         /\ Failed(w, "tag")
         /\ \E c \in CreatedFor(w) : AfterOnceWith(w, c)


\* A step of the creation phase failed for v.
CreationFailed(v) ==
    Failed(v, "load") \/ Failed(v, "before") \/ Failed(v, "create") \/ Failed(v, "tag")

\* C8: when the hook, the creation or the tagging of volume A fails, every
\* other selected volume B of a snapshotted policy is still processed by the
\* creation phase (and its snapshot requested unless B's own hook raised), and
\* the pruning phase still lists A's snapshots.
C8_CreationFailureIsolation ==
    Terminal =>
        \A A \in Selected :
            CreationFailed(A) =>
                /\ \A B \in Selected \ {A} :
                      Keep(B) # 0 =>
                          /\ Called(B, "begin")
                          /\ ~HookBlocked(B) => Called(B, "create")
                /\ Called(A, "list")

\* A's creation failed, B was snapshotted after it, and A was pruned.
C8_Witness ==
    /\ pc = "done"
    /\ \E A, B \in Selected :
         /\ A # B
         /\ \E a \in Calls(A, "create"), b \in Calls(B, "create") :
               a < b /\ ~log[a].ok /\ log[b].ok
         /\ Succeeded(A, "list")

\* The listing of v that succeeded, as an index of the log.
Listings(v) == {i \in Calls(v, "list") : log[i].ok}

\* C9 as stated: after a failed deletion the remaining marked snapshots of the
\* volume's batch still get their deletion attempt.
C9_DeletionFailureContinues ==
    Terminal =>
        \A v \in Volumes :
            \A i \in Listings(v) :
                \A k \in 1..Len(log[i].arg.marked) :
                    \E d \in Calls(v, "delete") : log[d].arg = log[i].arg.marked[k]

\* C9 as amended: in the log of a finished run the marked snapshots of a
\* volume were deleted in order up to the first failure; a failed deletion
\* ended the pruning of the volume, what was marked behind it was not
\* attempted and is still there, and every selected volume was listed.
C9_DeletionFailureEndsBatch ==
    Terminal =>
        \A v \in Volumes :
            \A i \in Listings(v) :
                LET marked == log[i].arg.marked
                    n == Cardinality(Calls(v, "delete"))
                IN  /\ n <= Len(marked)
                    /\ \A k \in 1..n :
                          /\ log[i + k] = Event("delete", v, log[i + k].ok, marked[k])
                          /\ k < n => log[i + k].ok
                    /\ \/ n = Len(marked) /\ (n > 0 => log[i + n].ok)
                       \/ /\ n > 0
                          /\ ~log[i + n].ok
                          /\ \A k \in n..Len(marked) : \E s \in snaps : s.id = marked[k]
                    /\ Failed(v, "delete") => \A w \in Selected : Called(w, "list")

\* The first of several marked snapshots failed to delete, the rest was left
\* in place, and a volume listed after it was pruned.
C9_Witness ==
    /\ pc = "done"
    /\ \E v, w \in Selected :
         /\ \E i \in Listings(v) :
               /\ Len(log[i].arg.marked) >= 2
               /\ ~log[i + 1].ok
               /\ \E s \in snaps : s.id = log[i].arg.marked[2]
               /\ \E j \in Calls(w, "delete") : i < j /\ log[j].ok
         /\ Cardinality(Calls(v, "delete")) = 1

\* C10: no listing or deletion happens before the creation phase has gone
\* through every selected volume of every snapshotted policy, once one has
\* happened only listings and deletions follow, and a run that got past its start lists
\* every selected volume whatever the creation phase's outcomes.
C10_PhaseOrdering ==
    /\ \A i \in 1..(Len(log) - 1) :
          log[i].call \in {"list", "delete"} => log[i + 1].call \in {"list", "delete"}
    /\ (\E i \in 1..Len(log) : log[i].call \in {"list", "delete"}) =>
          \A v \in Selected : Keep(v) # 0 => Called(v, "begin") /\ ~InProgress(v)
    /\ Terminal => \A v \in Selected : Called(v, "list")

\* Every creation of the run failed, and both volumes were listed afterwards.
C10_Witness ==
    /\ pc = "done"
    /\ \E v, w \in Selected :
         /\ v # w
         /\ Failed(v, "create")
         /\ Failed(w, "tag")
         /\ Called(v, "list")
         /\ Called(w, "list")

\* The volumes whose policy does not ask for attached volumes.
Unrestricted == {v \in Volumes : ~settings[volTag[v]].only_attached_vols}

\* The instance id is asked for by some policy and the metadata has none.
InstanceIdMissing == conn /\ ~instance_metadata /\ NeedsInstanceId

\* C11 as the specification states it: without an instance id the policy that
\* asks for attached volumes is given up and the run goes on, so that a run
\* that has ended has reached its end and has listed every volume of the
\* policies that do not ask for it.
C11_OnlyThatPolicyAbandoned ==
    (Terminal /\ InstanceIdMissing) =>
        /\ pc = "done"
        /\ \A v \in Unrestricted : Called(v, "list")

\* C11: when some policy asks for attached volumes and the instance id cannot
\* be resolved, the whole run ends at startup: no volume of any policy is
\* selected, nothing is called on a volume, no snapshot is created or
\* deleted.  When no policy asks for it the missing id ends nothing.
C11_MissingInstanceIdEndsRun ==
    /\ InstanceIdMissing =>
          /\ pc = "aborted"
          /\ Selected = {}
          /\ log = <<>>
          /\ snaps = pre
    /\ (conn /\ ~instance_metadata /\ ~NeedsInstanceId) => pc # "aborted"

\* The instance id is missing, one policy asks for it and a volume of a policy
\* that does not ask for it is left unprocessed.
C11_Witness ==
    /\ pc = "aborted"
    /\ InstanceIdMissing
    /\ Unrestricted # {}
    /\ log = <<>>

\* C12: a period argument that is none of hour, day, week, month is rejected
\* before any provider call: the run never connects, selects no volume, calls
\* nothing and leaves every snapshot in place.  A period that is one of them
\* is never rejected.
C12_InvalidPeriodRejected ==
    /\ period \notin Periods =>
          /\ pc \in {"start", "rejected"}
          /\ ~conn
          /\ Selected = {}
          /\ log = <<>>
          /\ snaps = pre
    /\ period \in Periods => pc # "rejected"

\* An invalid period has been rejected while a snapshot existed.
C12_Witness ==
    /\ period \notin Periods
    /\ pc = "rejected"
    /\ pre # {}
    /\ snaps = pre

\* The table holds a negative count or a key that is no period.
Malformed == extra_key \/ \E p \in Policies : settings[p].keep < 0

\* The startup steps of lines 194-210 went through.
StartupDone == conn /\ (instance_metadata \/ ~NeedsInstanceId)

\* C13 as the specification states it: a run with a malformed table stops
\* before any snapshot is created or deleted.
C13_MalformedTableStopsRun ==
    Malformed => \A i \in 1..Len(log) : log[i].call \notin {"create", "delete"}

\* C13: a table with a negative count or with a key that is no period is not
\* rejected.  The run goes on after startup as with any table; a policy with
\* a negative count -K enters the creation steps for each of its volumes, and
\* each of its listings marks the K oldest snapshots listed, or all when
\* fewer are listed.
C13_MalformedTableRuns ==
    /\ (Malformed /\ StartupDone) => pc \notin {"rejected", "aborted"}
    /\ pc = "sleep" =>
          \A v \in Selected : Keep(v) < 0 => Called(v, "begin")
    /\ Terminal =>
          \A i \in 1..Len(log) :
              (log[i].call = "list" /\ log[i].ok /\ Keep(log[i].vol) < 0) =>
                  LET seen == log[i].arg.seen
                      marked == {log[i].arg.marked[k] : k \in 1..Len(log[i].arg.marked)}
                  IN  /\ Len(log[i].arg.marked) = Min2(-Keep(log[i].vol), Cardinality(seen))
                      /\ marked \subseteq seen
                      /\ \A d \in marked, k \in seen \ marked : d < k

\* A run with a count of -1 has created a snapshot and has deleted the oldest
\* of three, leaving the newer two and the new one.
C13_Witness ==
    /\ pc = "done"
    /\ \E v \in Selected :
         /\ Keep(v) = -1
         /\ Succeeded(v, "create")
         /\ Cardinality(PreMatching(v)) = 3
         /\ \E i \in Calls(v, "delete") : log[i].ok /\ log[i].arg = 1
         /\ Cardinality(Matching(v)) >= 2

\* The listing of v succeeded, showed the run's own snapshot and every
\* deletion it asked for went through.
PruneSucceeded(v) == ListedAll(v) /\ ~Failed(v, "delete")

\* C14: with retention N > 0, a listing of N snapshots or fewer marks nothing
\* and is followed by no deletion, and it is no failure; and a volume whose
\* pruning went through has nothing left to delete, whatever the order in
\* which a second listing returns its snapshots.
C14_IdempotentNoOp ==
    /\ Terminal =>
          \A i \in 1..Len(log) :
              (/\ log[i].call = "list"
               /\ log[i].ok
               /\ Keep(log[i].vol) > 0
               /\ Cardinality(log[i].arg.seen) <= Keep(log[i].vol)) =>
                  /\ log[i].arg.marked = <<>>
                  /\ ~Called(log[i].vol, "delete")
                  /\ pc = "done"
    /\ pc = "done" =>
          \A v \in Selected :
              (Keep(v) > 0 /\ PruneSucceeded(v)) =>
                  \A raw \in Orderings(Matching(v)) : MustDelete(raw, Keep(v)) = <<>>

\* One volume was listed with no more snapshots than its retention and was
\* left alone; another was pruned down to its retention.
C14_Witness ==
    /\ pc = "done"
    /\ \E v \in Selected :
         /\ Keep(v) = 2
         /\ ~Called(v, "delete")
         /\ \E i \in Calls(v, "list") :
              log[i].ok /\ Cardinality(log[i].arg.seen) = 2 /\ log[i].arg.marked = <<>>
    /\ \E u \in Selected :
         /\ Keep(u) > 0
         /\ Succeeded(u, "delete")
         /\ PruneSucceeded(u)
         /\ Cardinality(Matching(u)) = Keep(u)

\* The volumes the specification selects for a policy.
TaggedWith(p) == {v \in Volumes : volTag[v] = p}
AttachedHere == {v \in Volumes : attached[v]}
Expected(p) ==
    IF settings[p].only_attached_vols THEN TaggedWith(p) \cap AttachedHere
    ELSE TaggedWith(p)

\* C15: once the volumes are selected, those of a policy with
\* only_attached_vols are exactly the volumes tagged with the policy and
\* attached to this instance, those of a policy without it exactly the
\* volumes tagged with the policy; nothing is called on any other volume and
\* a run that reaches its end has listed exactly those.
C15_VolumeSelection ==
    /\ pc \notin {"start", "rejected", "aborted"} =>
          \A p \in Policies : VolumesOf(p) = Expected(p)
    /\ Terminal =>
          \A i \in 1..Len(log) :
              log[i].vol # NoVolume => log[i].vol \in Expected(volTag[log[i].vol])
    /\ pc = "done" =>
          \A v \in Volumes : Called(v, "list") <=> v \in Expected(volTag[v])

\* A volume tagged with a policy that asks for attached volumes is not
\* attached and was left out; an unattached volume of a policy that does not
\* ask was processed.
C15_Witness ==
    /\ pc = "done"
    /\ \E v \in Volumes, u \in Volumes :
         /\ settings[volTag[v]].only_attached_vols
         /\ ~attached[v]
         /\ v \notin Selected
         /\ ~Called(v, "list")
         /\ ~settings[volTag[u]].only_attached_vols
         /\ ~attached[u]
         /\ Called(u, "list")

\* A listing or a deletion failed for v.
PruneFailed(v) == Failed(v, "list") \/ Failed(v, "delete")

\* The ids the listings of v marked for deletion.
MarkedFor(v) ==
    UNION {{log[i].arg.marked[k] : k \in 1..Len(log[i].arg.marked)} :
              i \in {j \in Calls(v, "list") : log[j].ok}}

\* C16: when a listing or a deletion fails for a volume during pruning, the
\* run still reaches its end, every selected volume has been listed, and
\* every other volume whose own calls went through has lost exactly the
\* snapshots its listing marked.
C16_PruningFailureIsolation ==
    (Terminal /\ \E a \in Selected : PruneFailed(a)) =>
        /\ pc = "done"
        /\ \A b \in Selected :
             /\ Called(b, "list")
             /\ ~PruneFailed(b) =>
                   /\ MarkedFor(b) \cap {x.id : x \in snaps} = {}
                   /\ \A i \in Calls(b, "delete") : log[i].arg \in MarkedFor(b)

\* A deletion failed for one volume and a volume pruned after it lost the
\* snapshot its listing marked.
C16_Witness ==
    /\ pc = "done"
    /\ \E a \in Selected, b \in Selected :
         /\ a # b
         /\ Failed(a, "delete")
         /\ ~PruneFailed(b)
         /\ Succeeded(b, "delete")
         /\ \A i \in Calls(a, "delete"), j \in Calls(b, "list") : i < j

\* The run has waited; a volume has entered the creation steps.
Slept == \E i \in 1..Len(log) : log[i].call = "sleep"
CreationAttempted == \E i \in 1..Len(log) : log[i].call = "begin"
PastSleep == pc \in PruningPcs \cup {"done"}

\* C17 as the specification states it: the run waits exactly when a creation
\* was attempted.
C17_DelayOnlyAfterAttempt == PastSleep => (Slept <=> CreationAttempted)

\* C17: the run waits between the phases exactly when some policy has a
\* count other than 0 for the period, whether or not that policy selected a
\* volume; it waits once, and always when a creation was attempted.
C17_DelayIffSnapshotPolicy ==
    PastSleep =>
        /\ Slept <=> \E p \in Policies : settings[p].keep # 0
        /\ CreationAttempted => Slept
        /\ Cardinality({i \in 1..Len(log) : log[i].call = "sleep"}) <= 1

\* A policy asks for snapshots, no volume carries its name, and the run has
\* waited without any creation step.
C17_Witness ==
    /\ pc = "done"
    /\ Slept
    /\ ~CreationAttempted
    /\ \E p \in Policies : settings[p].keep # 0 /\ VolumesOf(p) = {}
    /\ Selected # {}

\* The ids of the snapshots this run created and tagged with the period.
TaggedByRun == {log[i].arg : i \in {j \in 1..Len(log) : log[j].call = "tag" /\ log[j].ok}}

\* The snapshots from before the run that a run for the period may delete.
Prunable ==
    {s \in pre : s.tag_period = period /\ s.volume_id \in Expected(volTag[s.volume_id])}

\* C18: every snapshot from before the run that carries another period's tag
\* or none, or that belongs to a volume the run does not select, is still
\* there and unchanged; every deletion is asked for a snapshot of the event's
\* own volume that carries the period's tag; and a snapshot the run created
\* and could not tag is still there.
C18_OnlyPeriodSnapshotsDeleted ==
    /\ (pre \ Prunable) \subseteq snaps
    /\ Terminal =>
          /\ \A i \in 1..Len(log) :
                log[i].call = "delete" =>
                    \/ \E s \in Prunable : s.id = log[i].arg /\ s.volume_id = log[i].vol
                    \/ /\ log[i].arg \in TaggedByRun
                       /\ log[i].arg \in CreatedFor(log[i].vol)
          /\ \A v \in Selected :
                \A c \in CreatedFor(v) \ TaggedByRun : Snapshot(c, v, NoTag, c) \in snaps

\* A selected volume has lost its snapshot of the period and has kept its
\* snapshot of another period and its untagged one.
C18_Witness ==
    /\ pc = "done"
    /\ \E v \in Selected :
         /\ Succeeded(v, "delete")
         /\ \E s \in pre \cap snaps : s.volume_id = v /\ s.tag_period = "day"
         /\ \E s \in pre \cap snaps : s.volume_id = v /\ s.tag_period = NoTag
         /\ \E s \in pre \ snaps : s.volume_id = v /\ s.tag_period = period

\* Where x stands in the listing, and the order the specification gives:
\* by creation time, then by the place in the listing.
PlaceOf(x) == CHOOSE i \in 1..Len(listing) : listing[i] = x
Before(x, y) ==
    \/ x.start_time < y.start_time
    \/ x.start_time = y.start_time /\ PlaceOf(x) < PlaceOf(y)

\* C19: with retention N > 0 the listing is put in ascending order of
\* creation time, snapshots of equal time staying in the order of the
\* listing; the last N of that order are kept and exactly the others are
\* marked, in that order.
C19_StableOrderKeepsLastN ==
    (pc = "sliced" /\ settings[PrunePolicy].keep > 0) =>
        LET n == settings[PrunePolicy].keep
            all == {listing[i] : i \in 1..Len(listing)}
            marked == {must_delete[i] : i \in 1..Len(must_delete)}
        IN  /\ marked \subseteq all
            /\ Len(must_delete) = Max2(Len(listing) - n, 0)
            /\ Cardinality(marked) = Len(must_delete)
            /\ Cardinality(all \ marked) = Min2(n, Len(listing))
            /\ \A i, j \in 1..Len(must_delete) :
                   i < j => Before(must_delete[i], must_delete[j])
            /\ \A d \in marked, k \in all \ marked : Before(d, k)

\* Two snapshots of the same creation time: the one the listing returned
\* first is marked, the other is kept.
C19_Witness ==
    /\ pc = "sliced"
    /\ settings[PrunePolicy].keep > 0
    /\ \E i \in 1..Len(must_delete), k \in 1..Len(listing) :
         /\ \A j \in 1..Len(must_delete) : must_delete[j] # listing[k]
         /\ listing[k].start_time = must_delete[i].start_time
         /\ PlaceOf(must_delete[i]) < k
         /\ must_delete[i].id > listing[k].id

\* The snapshots of the period on the volume of s that are newer than s.
NewerThan(s) == {x \in Matching(s.volume_id) : x.start_time > s.start_time}

\* C20: with retention N > 0 and distinct creation times, whatever the
\* interleaving of two invocations for the same period and whatever part of
\* the snapshots a listing shows, a snapshot that a step deletes has at least
\* N newer snapshots of the period on its volume at that step: it is not
\* among the N most recent.
C20_NewestNeverDeleted ==
    [][\A s \in snaps :
          (\A x \in snaps' : x.id # s.id) =>
              /\ s.tag_period = period
              /\ Cardinality(NewerThan(s)) >= Keep(s.volume_id)]_vars

\* Both invocations are deleting at once from different listings, one of them
\* partial, and a snapshot from before the run is gone.
C20_Witness ==
    /\ pc = "overlap"
    /\ \A r \in Runs : runs[r].pc = "delete" /\ runs[r].snap # None
    /\ runs["run-1"].must_delete # runs["run-2"].must_delete
    /\ Len(runs["run-1"].must_delete) < Len(runs["run-2"].must_delete)
    /\ pre \ snaps # {}
    /\ Cardinality(Matching(VolumeOrder[1])) > Keep(VolumeOrder[1])

====
